---------------------------- MODULE Spec2Model ----------------------------
(***************************************************************************)
(* A model of HW08_AddressBook.py: the field validators (Phone, Birthday), *)
(* Record, AddressBook with its upcoming-birthday query, the pickle        *)
(* load/save pair, the command handlers behind @input_error and main().    *)
(*                                                                         *)
(* Python values are modelled as follows.                                  *)
(*   str        a sequence of characters; a character is a one-element     *)
(*              token such as "7", "a", ".", or the name of a code point   *)
(*              ("U+0663") for a character outside ASCII                   *)
(*   date       a record [year, month, day]                                *)
(*   None       the constant NoDate for an absent birthday                 *)
(*   exception  the field exc of an operation's outcome ("none" when the   *)
(*              operation returns normally)                                *)
(*   dict       a sequence of [key, rec] entries in insertion order        *)
(***************************************************************************)
EXTENDS Integers, Sequences, FiniteSets, TLC

VARIABLES
    pc,        \* position of main(): "start", "loop", "exited", "crashed"
    file,      \* addressbook.pkl: [kind, data]
    book,      \* address_book.data: sequence of [key, rec]
    last,      \* the last call made and its outcome
    today,     \* the value date.today() returns
    contact,   \* one Record driven through its own methods
    call,      \* the last method called on contact, its arguments and outcome
    arg,       \* a value handed to the Phone constructor
    made       \* the outcome of that construction

vars == <<pc, file, book, last, today, contact, call, arg, made>>

-----------------------------------------------------------------------------
(* Bounds of the model. *)

MaxPhones == 2      \* phones kept in a book, over all its records
MaxContactPhones == 3   \* phones kept by the record driven on its own
MaxPad == 1         \* how far a candidate string may exceed ten characters

-----------------------------------------------------------------------------
(* Characters and str methods. *)

AsciiDigits == {"0", "1", "2", "3", "4", "5", "6", "7", "8", "9"}

\* Characters outside ASCII for which str.isdigit() is true: ARABIC-INDIC
\* DIGIT THREE (category Nd) and SUPERSCRIPT TWO (Numeric_Type=Digit).
UnicodeDigits == {"U+0663", "U+00B2"}

\* VULGAR FRACTION ONE HALF is numeric but not a digit.
OtherChars == {"a", "+", "-", " ", ".", "U+00BD"}

\* str.isdigit() on one character
CharIsDigit(c) == c \in AsciiDigits \cup UnicodeDigits

\* str.isdigit(): true when the string is not empty and every character
\* is a digit.
isdigit(s) == Len(s) > 0 /\ \A i \in 1..Len(s) : CharIsDigit(s[i])

\* A value that is not an instance of str (an int handed to the constructor).
NotAStr == <<"<int>">>

isinstance_str(v) == v # NotAStr

PhoneLen == 10

Rep(c, n) == [i \in 1..n |-> c]

-----------------------------------------------------------------------------
(* Field, Name, Phone. *)

Outcome(e, v) == [exc |-> e, value |-> v]

\* Phone.__init__: the stored value, or ValueError.
Phone(value) ==
    IF ~isinstance_str(value) THEN Outcome("ValueError", <<>>)
    ELSE IF ~(isdigit(value) /\ Len(value) = PhoneLen)
         THEN Outcome("ValueError", <<>>)
         ELSE Outcome("none", value)

-----------------------------------------------------------------------------
(* datetime.date: the proleptic Gregorian calendar. *)

Date(y, m, d) == [year |-> y, month |-> m, day |-> d]

\* None, for Record.birthday
NoDate == Date(0, 0, 0)

IsLeap(y) == y % 4 = 0 /\ (y % 100 # 0 \/ y % 400 = 0)

DaysInMonth(y, m) ==
    IF m = 2 THEN (IF IsLeap(y) THEN 29 ELSE 28)
    ELSE IF m \in {4, 6, 9, 11} THEN 30 ELSE 31

\* The checks of the date constructor (MINYEAR is 1).
ValidDate(y, m, d) ==
    /\ y >= 1
    /\ m \in 1..12
    /\ d >= 1 /\ d <= DaysInMonth(y, m)

RECURSIVE DaysBeforeMonth(_, _)
DaysBeforeMonth(y, m) ==
    IF m = 1 THEN 0 ELSE DaysBeforeMonth(y, m - 1) + DaysInMonth(y, m - 1)

DaysBeforeYear(y) ==
    (y - 1) * 365 + ((y - 1) \div 4) - ((y - 1) \div 100) + ((y - 1) \div 400)

\* date.toordinal(): 1 January of year 1 is day 1.
toordinal(dt) == DaysBeforeYear(dt.year) + DaysBeforeMonth(dt.year, dt.month) + dt.day

\* date.__lt__
DateLess(a, b) ==
    \/ a.year < b.year
    \/ a.year = b.year /\ a.month < b.month
    \/ a.year = b.year /\ a.month = b.month /\ a.day < b.day

\* (a - b).days
DaysBetween(a, b) == toordinal(a) - toordinal(b)

\* date.weekday(): Monday is 0, Sunday is 6.
weekday(dt) == (toordinal(dt) + 6) % 7

NextDay(dt) ==
    IF dt.day < DaysInMonth(dt.year, dt.month) THEN Date(dt.year, dt.month, dt.day + 1)
    ELSE IF dt.month < 12 THEN Date(dt.year, dt.month + 1, 1)
    ELSE Date(dt.year + 1, 1, 1)

\* dt + timedelta(days=n), n >= 0
RECURSIVE AddDays(_, _)
AddDays(dt, n) == IF n = 0 THEN dt ELSE AddDays(NextDay(dt), n - 1)

\* date.replace(year=y): the new date, or ValueError when it does not exist.
ReplaceYear(dt, y) ==
    IF ValidDate(y, dt.month, dt.day)
    THEN Outcome("none", Date(y, dt.month, dt.day))
    ELSE Outcome("ValueError", NoDate)

DigitChars == <<"0", "1", "2", "3", "4", "5", "6", "7", "8", "9">>

Pad2(n) == <<DigitChars[((n \div 10) % 10) + 1], DigitChars[(n % 10) + 1]>>

Pad4(n) == Pad2(n \div 100) \o Pad2(n % 100)

\* strftime("%Y.%m.%d")
StrftimeYmd(dt) == Pad4(dt.year) \o <<".">> \o Pad2(dt.month) \o <<".">> \o Pad2(dt.day)

\* strftime("%d.%m.%Y")
StrftimeDmy(dt) == Pad2(dt.day) \o <<".">> \o Pad2(dt.month) \o <<".">> \o Pad4(dt.year)

-----------------------------------------------------------------------------
(* datetime.strptime(value, "%d.%m.%Y") *)

\* int() of one character matched by the regular expression class \d
DigitVal(c) ==
    IF c = "U+0663" THEN 3
    ELSE CHOOSE n \in 0..9 : DigitChars[n + 1] = c

\* \d of the re module matches the category Nd only.
ReDigit(c) == c \in AsciiDigits \cup {"U+0663"}

RECURSIVE IntOf(_)
IntOf(s) ==
    IF Len(s) = 0 THEN 0
    ELSE IntOf(SubSeq(s, 1, Len(s) - 1)) * 10 + DigitVal(s[Len(s)])

Dots(s) == {i \in 1..Len(s) : s[i] = "."}

\* %d is 3[0-1]|[1-2]\d|0[1-9]|[1-9]| [1-9]
MatchDay(f) ==
    \/ Len(f) = 2 /\ f[1] = "3" /\ f[2] \in {"0", "1"}
    \/ Len(f) = 2 /\ f[1] \in {"1", "2"} /\ ReDigit(f[2])
    \/ Len(f) = 2 /\ f[1] = "0" /\ f[2] \in AsciiDigits \ {"0"}
    \/ Len(f) = 1 /\ f[1] \in AsciiDigits \ {"0"}
    \/ Len(f) = 2 /\ f[1] = " " /\ f[2] \in AsciiDigits \ {"0"}

\* %m is 1[0-2]|0[1-9]|[1-9]
MatchMonth(f) ==
    \/ Len(f) = 2 /\ f[1] = "1" /\ f[2] \in {"0", "1", "2"}
    \/ Len(f) = 2 /\ f[1] = "0" /\ f[2] \in AsciiDigits \ {"0"}
    \/ Len(f) = 1 /\ f[1] \in AsciiDigits \ {"0"}

\* %Y is \d\d\d\d
MatchYear(f) == Len(f) = 4 /\ \A i \in 1..4 : ReDigit(f[i])

Strip(f) == IF Len(f) > 0 /\ f[1] = " " THEN Tail(f) ELSE f

\* The parsed date, or ValueError: the string does not match the format,
\* or names a day that does not exist.
strptime(s) ==
    LET dots == Dots(s) IN
    IF Cardinality(dots) # 2 THEN Outcome("ValueError", NoDate)
    ELSE
      LET p1 == CHOOSE i \in dots : \A j \in dots : i <= j
          p2 == CHOOSE i \in dots : \A j \in dots : j <= i
          fd == SubSeq(s, 1, p1 - 1)
          fm == SubSeq(s, p1 + 1, p2 - 1)
          fy == SubSeq(s, p2 + 1, Len(s))
      IN IF ~(MatchDay(fd) /\ MatchMonth(fm) /\ MatchYear(fy))
         THEN Outcome("ValueError", NoDate)
         ELSE IF ~ValidDate(IntOf(fy), IntOf(fm), IntOf(Strip(fd)))
              THEN Outcome("ValueError", NoDate)
              ELSE Outcome("none", Date(IntOf(fy), IntOf(fm), IntOf(Strip(fd))))

\* Birthday.__init__: the stored date, or ValueError.
Birthday(value) ==
    LET parsed == strptime(value) IN
    IF parsed.exc = "ValueError" THEN Outcome("ValueError", NoDate)
    ELSE Outcome("none", parsed.value)

-----------------------------------------------------------------------------
(* Record *)

\* Record.__init__
Record(name) == [name |-> name, phones |-> <<>>, birthday |-> NoDate]

Raised(e, rec) == [exc |-> e, ret |-> "None", rec |-> rec]

Returned(r, rec) == [exc |-> "none", ret |-> r, rec |-> rec]

\* Record.add_phone
Record_add_phone(rec, phone_str) ==
    LET phone_obj == Phone(phone_str) IN
    IF phone_obj.exc # "none" THEN Raised(phone_obj.exc, rec)
    ELSE IF ~\E i \in 1..Len(rec.phones) : rec.phones[i] = phone_obj.value
         THEN Returned("None", [rec EXCEPT !.phones = Append(@, phone_obj.value)])
         ELSE Returned("None", rec)

\* list.remove(x) at the first index holding it
RemoveAt(s, i) == SubSeq(s, 1, i - 1) \o SubSeq(s, i + 1, Len(s))

FirstIndex(s, x) == CHOOSE i \in 1..Len(s) : s[i] = x /\ \A j \in 1..(i - 1) : s[j] # x

\* Record.remove_phone
Record_remove_phone(rec, phone_str) ==
    IF \E i \in 1..Len(rec.phones) : rec.phones[i] = phone_str
    THEN Returned("None", [rec EXCEPT !.phones = RemoveAt(@, FirstIndex(@, phone_str))])
    ELSE Returned("None", rec)

\* edit_phone that drops the old number and appends the new one
Record_edit_phone_append(rec, old_phone, new_phone) ==
    IF \E i \in 1..Len(rec.phones) : rec.phones[i] = old_phone
    THEN LET idx == FirstIndex(rec.phones, old_phone)
             new_phone_obj == Phone(new_phone)
         IN IF new_phone_obj.exc # "none" THEN Raised(new_phone_obj.exc, rec)
            ELSE Returned("True",
                          [rec EXCEPT !.phones = Append(RemoveAt(@, idx), new_phone_obj.value)])
    ELSE Returned("False", rec)

\* Record.edit_phone
Record_edit_phone(rec, old_phone, new_phone) ==
    IF \E i \in 1..Len(rec.phones) : rec.phones[i] = old_phone
    THEN LET idx == FirstIndex(rec.phones, old_phone)
             new_phone_obj == Phone(new_phone)
         IN IF new_phone_obj.exc # "none" THEN Raised(new_phone_obj.exc, rec)
            ELSE Returned("True", [rec EXCEPT !.phones[idx] = new_phone_obj.value])
    ELSE Returned("False", rec)

\* Record.add_birthday
Record_add_birthday(rec, bday_str) ==
    LET b == Birthday(bday_str) IN
    IF b.exc # "none" THEN Raised(b.exc, rec)
    ELSE Returned("None", [rec EXCEPT !.birthday = b.value])

\* Record.show_birthday: str(self.birthday), or the "not set" text
BirthdayNotSet == <<"not set">>

Record_show_birthday(rec) ==
    IF rec.birthday # NoDate THEN StrftimeDmy(rec.birthday) ELSE BirthdayNotSet

\* sep.join(parts)
RECURSIVE Join(_, _)
Join(sep, parts) ==
    IF Len(parts) = 0 THEN <<>>
    ELSE IF Len(parts) = 1 THEN parts[1]
    ELSE parts[1] \o sep \o Join(sep, Tail(parts))

\* Record.__str__
Record_str(rec) ==
    LET phones_str == Join(<<",", " ">>, rec.phones) IN
    IF rec.birthday # NoDate
    THEN rec.name \o <<":", " ">> \o phones_str \o <<", birthday: ">> \o StrftimeDmy(rec.birthday)
    ELSE rec.name \o <<":", " ">> \o phones_str

-----------------------------------------------------------------------------
(* AddressBook: self.data as a sequence of entries in insertion order. *)

Entry(k, r) == [key |-> k, rec |-> r]

HasKey(data, name) == \E i \in 1..Len(data) : data[i].key = name

KeyIndex(data, name) == CHOOSE i \in 1..Len(data) : data[i].key = name

\* self.data[key] = record: an existing key keeps its place, a new one is
\* appended.
DictSet(data, k, record) ==
    IF HasKey(data, k)
    THEN [data EXCEPT ![KeyIndex(data, k)] = Entry(k, record)]
    ELSE Append(data, Entry(k, record))

\* add_record that keeps the entries in a list
AddressBook_add_record_append(data, record) == Append(data, Entry(record.name, record))

\* AddressBook.add_record
AddressBook_add_record(data, record) == DictSet(data, record.name, record)

\* AddressBook.find: the record, or KeyError.
AddressBook_find(data, name) ==
    IF HasKey(data, name)
    THEN [exc |-> "none", rec |-> data[KeyIndex(data, name)].rec]
    ELSE [exc |-> "KeyError", rec |-> Record(name)]

\* AddressBook.delete
AddressBook_delete(data, name) ==
    IF HasKey(data, name)
    THEN [ret |-> "True", data |-> RemoveAt(data, KeyIndex(data, name))]
    ELSE [ret |-> "False", data |-> data]

\* A record found in the book is changed in place: the book holds the
\* reference the caller changed.
InPlace(data, name, rec) == [data EXCEPT ![KeyIndex(data, name)].rec = rec]

Person(n, c) == [name |-> n, congratulation_date |-> c]

\* the loop body with a window of today through 7 days ahead
Upcoming_window8(record, now) ==
    IF record.birthday = NoDate THEN [exc |-> "none", add |-> <<>>]
    ELSE
      LET bday == record.birthday
          first == ReplaceYear(bday, now.year)
      IN IF first.exc # "none" THEN [exc |-> first.exc, add |-> <<>>]
         ELSE
           LET second == IF DateLess(first.value, now)
                         THEN ReplaceYear(first.value, now.year + 1)
                         ELSE first
           IN IF second.exc # "none" THEN [exc |-> second.exc, add |-> <<>>]
              ELSE
                LET birthday_this_year == second.value
                    days_ahead == DaysBetween(birthday_this_year, now)
                    congratulation_date ==
                        IF weekday(birthday_this_year) = 5
                        THEN AddDays(birthday_this_year, 2)
                        ELSE IF weekday(birthday_this_year) = 6
                             THEN AddDays(birthday_this_year, 1)
                             ELSE birthday_this_year
                IN IF 0 <= days_ahead /\ days_ahead <= 7
                   THEN [exc |-> "none",
                         add |-> <<Person(record.name, StrftimeYmd(congratulation_date))>>]
                   ELSE [exc |-> "none", add |-> <<>>]

\* the loop body with Saturday moved by one day only
Upcoming_saturday1(record, now) ==
    IF record.birthday = NoDate THEN [exc |-> "none", add |-> <<>>]
    ELSE
      LET bday == record.birthday
          first == ReplaceYear(bday, now.year)
      IN IF first.exc # "none" THEN [exc |-> first.exc, add |-> <<>>]
         ELSE
           LET second == IF DateLess(first.value, now)
                         THEN ReplaceYear(first.value, now.year + 1)
                         ELSE first
           IN IF second.exc # "none" THEN [exc |-> second.exc, add |-> <<>>]
              ELSE
                LET birthday_this_year == second.value
                    days_ahead == DaysBetween(birthday_this_year, now)
                    congratulation_date ==
                        IF weekday(birthday_this_year) = 5
                        THEN AddDays(birthday_this_year, 1)
                        ELSE IF weekday(birthday_this_year) = 6
                             THEN AddDays(birthday_this_year, 1)
                             ELSE birthday_this_year
                IN IF 0 <= days_ahead /\ days_ahead <= 6
                   THEN [exc |-> "none",
                         add |-> <<Person(record.name, StrftimeYmd(congratulation_date))>>]
                   ELSE [exc |-> "none", add |-> <<>>]

\* The body of the loop of get_upcoming_birthdays for one record: the
\* record is skipped, appended to the list, or the projection raises.
Upcoming(record, now) ==
    IF record.birthday = NoDate THEN [exc |-> "none", add |-> <<>>]
    ELSE
      LET bday == record.birthday
          first == ReplaceYear(bday, now.year)
      IN IF first.exc # "none" THEN [exc |-> first.exc, add |-> <<>>]
         ELSE
           LET second == IF DateLess(first.value, now)
                         THEN ReplaceYear(first.value, now.year + 1)
                         ELSE first
           IN IF second.exc # "none" THEN [exc |-> second.exc, add |-> <<>>]
              ELSE
                LET birthday_this_year == second.value
                    days_ahead == DaysBetween(birthday_this_year, now)
                    congratulation_date ==
                        IF weekday(birthday_this_year) = 5
                        THEN AddDays(birthday_this_year, 2)
                        ELSE IF weekday(birthday_this_year) = 6
                             THEN AddDays(birthday_this_year, 1)
                             ELSE birthday_this_year
                IN IF 0 <= days_ahead /\ days_ahead <= 6
                   THEN [exc |-> "none",
                         add |-> <<Person(record.name, StrftimeYmd(congratulation_date))>>]
                   ELSE [exc |-> "none", add |-> <<>>]

RECURSIVE UpcomingFrom(_, _, _, _)
UpcomingFrom(data, now, i, upcoming) ==
    IF i > Len(data) THEN [exc |-> "none", ret |-> upcoming]
    ELSE LET step == Upcoming(data[i].rec, now) IN
         IF step.exc # "none" THEN [exc |-> step.exc, ret |-> <<>>]
         ELSE UpcomingFrom(data, now, i + 1, upcoming \o step.add)

\* AddressBook.get_upcoming_birthdays, with date.today() = now
AddressBook_get_upcoming_birthdays(data, now) == UpcomingFrom(data, now, 1, <<>>)

-----------------------------------------------------------------------------
(* save_data, load_data *)

File(k, d) == [kind |-> k, data |-> d]

\* save_data: the file then holds the pickled book.
save_data(data) == File("pickle", data)

\* load_data: open() raises FileNotFoundError for a missing file, which is
\* caught; pickle.load raises UnpicklingError (or EOFError) for bytes that
\* are no pickle, which is not.
load_data(f) ==
    IF f.kind = "absent" THEN [exc |-> "none", data |-> <<>>]
    ELSE IF f.kind = "corrupt" THEN [exc |-> "UnpicklingError", data |-> <<>>]
    ELSE [exc |-> "none", data |-> f.data]

-----------------------------------------------------------------------------
(* The command handlers: what the function under @input_error does. *)

None == <<"None">>

HRaised(e, data) == [exc |-> e, ret |-> None, data |-> data]

HReturned(r, data) == [exc |-> "none", ret |-> r, data |-> data]

\* add_contact that stores the new record before its phone is validated
add_contact_eager(args, data) ==
    IF Len(args) < 2 THEN HRaised("IndexError", data)
    ELSE
      LET name == args[1]
          phone == args[2]
          found == AddressBook_find(data, name)
      IN IF found.exc = "none"
         THEN LET r == Record_add_phone(found.rec, phone) IN
              IF r.exc # "none" THEN HRaised(r.exc, data)
              ELSE HReturned(<<"phone added", name, phone>>, InPlace(data, name, r.rec))
         ELSE LET r == Record_add_phone(Record(name), phone) IN
              IF r.exc # "none" THEN HRaised(r.exc, AddressBook_add_record(data, Record(name)))
              ELSE HReturned(<<"contact created", name, phone>>,
                             AddressBook_add_record(data, r.rec))

\* add_contact
add_contact(args, data) ==
    IF Len(args) < 2 THEN HRaised("IndexError", data)
    ELSE
      LET name == args[1]
          phone == args[2]
          found == AddressBook_find(data, name)
      IN IF found.exc = "none"
         THEN LET r == Record_add_phone(found.rec, phone) IN
              IF r.exc # "none" THEN HRaised(r.exc, data)
              ELSE HReturned(<<"phone added", name, phone>>, InPlace(data, name, r.rec))
         ELSE LET r == Record_add_phone(Record(name), phone) IN
              IF r.exc # "none" THEN HRaised(r.exc, data)
              ELSE HReturned(<<"contact created", name, phone>>,
                             AddressBook_add_record(data, r.rec))

\* change_phone
change_phone(args, data) ==
    IF Len(args) < 3 THEN HRaised("IndexError", data)
    ELSE
      LET name == args[1]
          old_phone == args[2]
          new_phone == args[3]
          found == AddressBook_find(data, name)
      IN IF found.exc # "none" THEN HRaised(found.exc, data)
         ELSE LET r == Record_edit_phone(found.rec, old_phone, new_phone) IN
              IF r.exc # "none" THEN HRaised(r.exc, data)
              ELSE IF r.ret = "True"
                   THEN HReturned(<<"phone replaced", name, old_phone, new_phone>>,
                                  InPlace(data, name, r.rec))
                   ELSE HReturned(<<"phone not found", name, old_phone>>, data)

\* show_phones
show_phones(args, data) ==
    IF Len(args) < 1 THEN HRaised("IndexError", data)
    ELSE
      LET name == args[1]
          found == AddressBook_find(data, name)
      IN IF found.exc # "none" THEN HRaised(found.exc, data)
         ELSE IF Len(found.rec.phones) = 0
              THEN HReturned(<<"no phones", name>>, data)
              ELSE HReturned(<<"phones", name, Join(<<",", " ">>, found.rec.phones)>>, data)

\* show_all
show_all(args, data) ==
    IF Len(data) = 0 THEN HReturned(<<"book is empty">>, data)
    ELSE HReturned(Join(<<"\n">>, [i \in 1..Len(data) |-> Record_str(data[i].rec)]), data)

\* add_birthday
add_birthday(args, data) ==
    IF Len(args) < 2 THEN HRaised("IndexError", data)
    ELSE
      LET name == args[1]
          bday_str == args[2]
          found == AddressBook_find(data, name)
      IN IF found.exc # "none" THEN HRaised(found.exc, data)
         ELSE LET r == Record_add_birthday(found.rec, bday_str) IN
              IF r.exc # "none" THEN HRaised(r.exc, data)
              ELSE HReturned(<<"birthday set", name, bday_str>>, InPlace(data, name, r.rec))

\* show_birthday
show_birthday(args, data) ==
    IF Len(args) < 1 THEN HRaised("IndexError", data)
    ELSE
      LET name == args[1]
          found == AddressBook_find(data, name)
      IN IF found.exc # "none" THEN HRaised(found.exc, data)
         ELSE LET bday_info == Record_show_birthday(found.rec) IN
              IF bday_info = BirthdayNotSet
              THEN HReturned(<<"no birthday", name>>, data)
              ELSE HReturned(<<"birthday", name, bday_info>>, data)

\* show_upcoming_birthdays, with date.today() = now
show_upcoming_birthdays(args, data, now) ==
    LET upcoming == AddressBook_get_upcoming_birthdays(data, now) IN
    IF upcoming.exc # "none" THEN HRaised(upcoming.exc, data)
    ELSE IF Len(upcoming.ret) = 0 THEN HReturned(<<"nobody this week">>, data)
    ELSE HReturned(
           Join(<<"\n">>,
                <<<<"this week:">>>> \o
                [i \in 1..Len(upcoming.ret) |->
                    upcoming.ret[i].name \o <<" => ">> \o upcoming.ret[i].congratulation_date]),
           data)

\* greet
greet(args, data) == HReturned(<<"hello">>, data)

\* input_error.wrapper: the handler's result, or None with the exception
\* logged and a message printed.
input_error(r) ==
    IF r.exc = "none"
    THEN [exc |-> "none", ret |-> r.ret, printed |-> <<>>, data |-> r.data]
    ELSE [exc |-> r.exc, ret |-> None, data |-> r.data,
          printed |-> IF r.exc = "KeyError" THEN <<"contact not found">>
                      ELSE IF r.exc = "ValueError" THEN <<"value error">>
                      ELSE IF r.exc = "IndexError" THEN <<"not enough arguments">>
                      ELSE <<"unexpected error">>]

-----------------------------------------------------------------------------
(* Inputs. *)

NameA == <<"a">>
NameB == <<"b">>
Names == {NameA, NameB}

P1 == <<"0", "5", "0", "1", "2", "3", "4", "5", "6", "7">>
P2 == <<"0", "6", "7", "7", "6", "5", "4", "3", "2", "1">>
PU == Rep("U+0663", PhoneLen)                \* ten ARABIC-INDIC DIGIT THREE
Short == Rep("1", PhoneLen - 1)
Dashed == <<"0", "5", "0", "-", "1", "2", "3", "4", "5", "6">>

B1 == <<"1", "5", ".", "0", "6", ".", "1", "9", "9", "0">>      \* 15.06.1990

\* The words a command line may carry after a contact's name.
Words == {P1, PU, B1}

\* parts[1:] of a command line
ArgLists(n) ==
    IF n = 0 THEN {<<>>}
    ELSE IF n = 1 THEN {<<>>} \cup {<<a>> : a \in Names}
    ELSE IF n = 2 THEN {<<>>} \cup {<<a>> : a \in Names}
                       \cup {<<a, w>> : a \in Names, w \in Words}
    ELSE {<<>>} \cup {<<a>> : a \in Names}
         \cup {<<a, w>> : a \in Names, w \in Words}
         \cup {<<a, w, x>> : a \in Names, w \in Words, x \in Words}

Idle == [op |-> "none", exc |-> "none", ret |-> None, printed |-> <<>>]

NoCall == [op |-> "none", old |-> <<>>, new |-> <<>>, before |-> <<>>,
           exc |-> "none", ret |-> "None"]

NotMade == Outcome("pending", <<>>)

Saved == <<Entry(NameA, [name |-> NameA, phones |-> <<P1>>, birthday |-> Date(1990, 6, 15)])>>

Files == {File("absent", <<>>), File("corrupt", <<>>), File("pickle", Saved)}

RECURSIVE PhoneCount(_)
PhoneCount(data) ==
    IF Len(data) = 0 THEN 0 ELSE Len(data[1].rec.phones) + PhoneCount(Tail(data))

Bounded(data) == PhoneCount(data) <= MaxPhones

-----------------------------------------------------------------------------
(* main(): the program as the user drives it. *)

Init ==
    /\ pc = "start"
    /\ file \in Files
    /\ book = <<>>
    /\ last = Idle
    /\ today = Date(2024, 6, 10)
    /\ contact = Record(NameA)
    /\ call = NoCall
    /\ arg = <<>>
    /\ made = NotMade

Others == <<contact, call, arg, made>>

\* main, lines 309-314: the answer to the prompt, then load_data or a new book.
\* An exception of load_data is not caught: the process ends with a traceback.
Start ==
    /\ pc = "start"
    /\ \E choice \in {"y", "n"} :
         IF choice = "y"
         THEN LET r == load_data(file) IN
              IF r.exc # "none"
              THEN /\ pc' = "crashed"
                   /\ last' = [op |-> "load_data", exc |-> r.exc, ret |-> None, printed |-> <<>>]
                   /\ book' = book
              ELSE /\ pc' = "loop"
                   /\ book' = r.data
                   /\ last' = [op |-> "load_data", exc |-> "none", ret |-> None,
                               printed |-> IF file.kind = "absent"
                                           THEN <<"file not found">> ELSE <<>>]
         ELSE /\ pc' = "loop"
              /\ book' = <<>>
              /\ last' = [op |-> "new", exc |-> "none", ret |-> None,
                          printed |-> <<"new book">>]
    /\ UNCHANGED <<file, today, Others>>

\* One turn of the loop for a command of COMMANDS: handler(args, address_book).
Handle(op, r) ==
    /\ pc = "loop"
    /\ Bounded(r.data)
    /\ book' = r.data
    /\ last' = [op |-> op, exc |-> r.exc, ret |-> r.ret, printed |-> r.printed]
    /\ UNCHANGED <<pc, file, today, Others>>

CmdAdd == \E args \in ArgLists(2) : Handle("add", input_error(add_contact(args, book)))

CmdChange == \E args \in ArgLists(3) : Handle("change", input_error(change_phone(args, book)))

CmdPhone == \E args \in ArgLists(1) : Handle("phone", input_error(show_phones(args, book)))

CmdAll == \E args \in ArgLists(0) : Handle("all", input_error(show_all(args, book)))

CmdAddBirthday ==
    \E args \in ArgLists(2) : Handle("add-birthday", input_error(add_birthday(args, book)))

CmdShowBirthday ==
    \E args \in ArgLists(1) : Handle("show-birthday", input_error(show_birthday(args, book)))

CmdBirthdays ==
    \E args \in ArgLists(0) :
        Handle("birthdays", input_error(show_upcoming_birthdays(args, book, today)))

CmdHello == \E args \in ArgLists(0) : Handle("hello", input_error(greet(args, book)))

\* "help" and an unknown command only print.
CmdOther ==
    /\ pc = "loop"
    /\ \E op \in {"help", "unknown"} :
         last' = [op |-> op, exc |-> "none", ret |-> None, printed |-> <<op>>]
    /\ UNCHANGED <<pc, file, book, today, Others>>

\* "exit" or "close": save_data, then the loop ends.
CmdExit ==
    /\ pc = "loop"
    /\ file' = save_data(book)
    /\ pc' = "exited"
    /\ last' = [op |-> "exit", exc |-> "none", ret |-> None, printed |-> <<"bye">>]
    /\ UNCHANGED <<book, today, Others>>

\* Records a caller may hand to add_record.
NewRecords ==
    {[name |-> n, phones |-> ps, birthday |-> b] :
        n \in Names, ps \in {<<>>, <<PU>>}, b \in {NoDate}}

\* AddressBook.add_record called on the book
AddRecord ==
    /\ pc = "loop"
    /\ \E record \in NewRecords :
         /\ Bounded(AddressBook_add_record(book, record))
         /\ book' = AddressBook_add_record(book, record)
         /\ last' = [op |-> "add_record", exc |-> "none", ret |-> None, printed |-> <<>>]
    /\ UNCHANGED <<pc, file, today, Others>>

\* AddressBook.delete called on the book
Delete ==
    /\ pc = "loop"
    /\ \E name \in Names :
         LET r == AddressBook_delete(book, name) IN
         /\ book' = r.data
         /\ last' = [op |-> "delete", exc |-> "none", ret |-> <<r.ret>>, printed |-> <<>>]
    /\ UNCHANGED <<pc, file, today, Others>>

Next ==
    \/ Start
    \/ CmdAdd
    \/ CmdChange
    \/ CmdPhone
    \/ CmdAll
    \/ CmdAddBirthday
    \/ CmdShowBirthday
    \/ CmdBirthdays
    \/ CmdHello
    \/ CmdOther
    \/ CmdExit
    \/ AddRecord
    \/ Delete

Spec == Init /\ [][Next]_vars

-----------------------------------------------------------------------------
(* One Record driven through add_phone, remove_phone and edit_phone. *)

PhoneArgs == {P1, P2, PU, Short, Dashed}

InitRecord ==
    /\ pc = "api"
    /\ file = File("absent", <<>>)
    /\ book = <<>>
    /\ last = Idle
    /\ today = Date(2024, 6, 10)
    /\ contact = Record(NameA)
    /\ call = NoCall
    /\ arg = <<>>
    /\ made = NotMade

Called(op, old, new, r) ==
    /\ Len(r.rec.phones) <= MaxContactPhones
    /\ contact' = r.rec
    /\ call' = [op |-> op, old |-> old, new |-> new, before |-> contact.phones,
                exc |-> r.exc, ret |-> r.ret]
    /\ UNCHANGED <<pc, file, book, last, today, arg, made>>

AddPhone == \E p \in PhoneArgs : Called("add_phone", <<>>, p, Record_add_phone(contact, p))

RemovePhone ==
    \E p \in PhoneArgs : Called("remove_phone", p, <<>>, Record_remove_phone(contact, p))

EditPhone ==
    \E old \in PhoneArgs, new \in PhoneArgs :
        Called("edit_phone", old, new, Record_edit_phone(contact, old, new))

NextRecord ==
    \/ AddPhone
    \/ RemovePhone
    \/ EditPhone

SpecRecord == InitRecord /\ [][NextRecord]_vars

-----------------------------------------------------------------------------
(* The Phone constructor on its own. *)

AllChars == AsciiDigits \cup UnicodeDigits \cup OtherChars

\* the digits 1234567890 repeated up to n characters
Base(n) == [k \in 1..n |-> DigitChars[(k % 10) + 1]]

\* Strings of up to PhoneLen + MaxPad characters: all ASCII digits, or with
\* one character replaced by any other; and a value that is no string.
Candidates ==
    {NotAStr}
    \cup {Base(n) : n \in 0..(PhoneLen + MaxPad)}
    \cup UNION {{[Base(n) EXCEPT ![i] = x] : i \in 1..n, x \in AllChars} :
                   n \in 1..(PhoneLen + MaxPad)}
    \cup {Rep(x, PhoneLen) : x \in AllChars}

InitPhone ==
    /\ pc = "api"
    /\ file = File("absent", <<>>)
    /\ book = <<>>
    /\ last = Idle
    /\ today = Date(2024, 6, 10)
    /\ contact = Record(NameA)
    /\ call = NoCall
    /\ arg \in Candidates
    /\ made = NotMade

Construct ==
    /\ made = NotMade
    /\ made' = Phone(arg)
    /\ UNCHANGED <<pc, file, book, last, today, contact, call, arg>>

NextPhone == Construct

SpecPhone == InitPhone /\ [][NextPhone]_vars

-----------------------------------------------------------------------------
(* get_upcoming_birthdays over the calendar. *)

Years == {2023, 2024}

Days == {dt \in {Date(y, m, d) : y \in Years, m \in 1..12, d \in 1..31} :
            ValidDate(dt.year, dt.month, dt.day)}

\* Birthdays as add-birthday stores them; NoDate is a record without one.
BirthDates ==
    {NoDate, Date(1990, 1, 1), Date(1985, 2, 28), Date(2000, 2, 29), Date(1990, 3, 1),
     Date(1990, 6, 15), Date(1990, 12, 31)}

Contact(n, b) == [name |-> n, phones |-> <<P1>>, birthday |-> b]

\* Books of one record, and of two records inserted as b, then a.
BirthdayBooks ==
    {<<Entry(NameA, Contact(NameA, x))>> : x \in BirthDates}
    \cup {<<Entry(NameB, Contact(NameB, x)), Entry(NameA, Contact(NameA, y))>> :
             x \in BirthDates, y \in BirthDates}

InitBirthdays ==
    /\ pc = "loop"
    /\ file = File("absent", <<>>)
    /\ book \in BirthdayBooks
    /\ last = Idle
    /\ today \in Days
    /\ contact = Record(NameA)
    /\ call = NoCall
    /\ arg = <<>>
    /\ made = NotMade

\* book.get_upcoming_birthdays()
GetUpcomingBirthdays ==
    /\ LET r == AddressBook_get_upcoming_birthdays(book, today) IN
       last' = [op |-> "get_upcoming_birthdays", exc |-> r.exc, ret |-> r.ret,
                printed |-> <<>>]
    /\ UNCHANGED <<pc, file, book, today, Others>>

NextBirthdays ==
    \/ GetUpcomingBirthdays
    \/ CmdBirthdays

SpecBirthdays == InitBirthdays /\ [][NextBirthdays]_vars

-----------------------------------------------------------------------------
(* Properties. *)

Distinct(s) == \A i, j \in 1..Len(s) : i # j => s[i] # s[j]

\* C1: a record's phone list never holds the same digit string twice,
\* whatever sequence of add_phone, remove_phone and edit_phone built it.
C1_NoDuplicatePhones == Distinct(contact.phones)

\* C2: edit_phone with a new number the Phone constructor rejects raises
\* ValueError and leaves the phones as they were, whether or not the old
\* number is in the record.
C2_EditValidatesNew ==
    (call.op = "edit_phone" /\ Phone(call.new).exc = "ValueError")
        => (call.exc = "ValueError" /\ contact.phones = call.before)

\* C3: get_upcoming_birthdays (and the birthdays command on top of it)
\* completes without an exception for every today and every book, books
\* with a 29 February birthday included.
C3_Feb29Completes ==
    last.op \in {"get_upcoming_birthdays", "birthdays"} => last.exc = "none"

NoFeb29(data) ==
    \A i \in 1..Len(data) : ~(data[i].rec.birthday.month = 2 /\ data[i].rec.birthday.day = 29)

\* the days today .. today + 6 on which the birthday b falls
Hits(b, now) ==
    {k \in 0..6 : AddDays(now, k).month = b.month /\ AddDays(now, k).day = b.day}

InWindow(e) == e.rec.birthday # NoDate /\ Hits(e.rec.birthday, today) # {}

NamesOf(entries) == [i \in 1..Len(entries) |-> entries[i].name]

RecNamesOf(entries) == [i \in 1..Len(entries) |-> entries[i].rec.name]

\* C4: with no 29 February birthday in the book, get_upcoming_birthdays
\* returns, in the book's order, exactly one entry for each record whose
\* birthday falls on one of the days today .. today + 6, and none for the
\* other records.
C4_SevenDayWindow ==
    (last.op = "get_upcoming_birthdays" /\ NoFeb29(book))
        => /\ last.exc = "none"
           /\ NamesOf(last.ret) = RecNamesOf(SelectSeq(book, InWindow))

\* C4 witness: a book of two records on 25 December; the birthday of
\* 31 December (6 days ahead) is listed, that of 1 January (7 days) is not.
C4_Witness ==
    /\ last.op = "get_upcoming_birthdays"
    /\ NoFeb29(book)
    /\ today.month = 12 /\ today.day = 25
    /\ Len(book) = 2
    /\ book[1].rec.birthday = Date(1990, 1, 1)
    /\ book[2].rec.birthday = Date(1990, 12, 31)
    /\ NamesOf(last.ret) = <<NameA>>

ParseYmd(s) == Date(IntOf(SubSeq(s, 1, 4)), IntOf(SubSeq(s, 6, 7)), IntOf(SubSeq(s, 9, 10)))

Shift(dt) == IF weekday(dt) = 5 THEN 2 ELSE IF weekday(dt) = 6 THEN 1 ELSE 0

\* C5: every entry's congratulation date is the projected birthday, moved
\* by 2 days from a Saturday and by 1 day from a Sunday; it is a weekday
\* and lies between today and today + 8 days.
C5_WeekendShift ==
    (last.op = "get_upcoming_birthdays" /\ last.exc = "none")
        => \A i \in 1..Len(last.ret) :
             LET b == AddressBook_find(book, last.ret[i].name).rec.birthday
                 got == ParseYmd(last.ret[i].congratulation_date)
             IN /\ b # NoDate
                /\ \E k \in Hits(b, today) :
                     LET projected == AddDays(today, k) IN
                     /\ toordinal(got) = toordinal(projected) + Shift(projected)
                     /\ last.ret[i].congratulation_date = StrftimeYmd(got)
                /\ weekday(got) \in 0..4
                /\ DaysBetween(got, today) \in 0..8

\* C5 witness: Monday 10 June 2024; 15 June is a Saturday and its
\* congratulation date is 2024.06.17.
C5_Witness ==
    /\ last.op = "get_upcoming_birthdays"
    /\ today = Date(2024, 6, 10)
    /\ Len(last.ret) = 1
    /\ last.ret[1].congratulation_date = <<"2", "0", "2", "4", ".", "0", "6", ".", "1", "7">>
    /\ AddressBook_find(book, last.ret[1].name).rec.birthday = Date(1990, 6, 15)

TenAsciiDigits(s) ==
    /\ isinstance_str(s)
    /\ Len(s) = PhoneLen
    /\ \A i \in 1..Len(s) : s[i] \in AsciiDigits

\* C6: the Phone constructor succeeds exactly for strings of ten ASCII
\* digits, and then stores the same string; for every other value it
\* raises ValueError.
C6_TenAsciiDigitsOnly ==
    made # NotMade
        => /\ (made.exc = "none") <=> TenAsciiDigits(arg)
           /\ made.exc = "none" => made.value = arg
           /\ made.exc # "none" => made.exc = "ValueError"

\* C7: every key of the book maps to a record whose name is that key, and
\* no two entries share a key.
C7_KeysAreNames ==
    /\ \A i \in 1..Len(book) : book[i].key = book[i].rec.name
    /\ \A i, j \in 1..Len(book) : i # j => book[i].key # book[j].key

\* C7 witness: add_record was called for a name and the book holds two
\* records.
C7_Witness == last.op = "add_record" /\ Len(book) = 2

\* C8: with a corrupt file, loading yields an empty book and the command
\* loop is entered; the process does not end with an uncaught error.
C8_CorruptFileRecovers ==
    (last.op = "load_data" /\ file.kind = "corrupt") => (pc = "loop" /\ book = <<>>)

\* C9: for a new number the constructor accepts, edit_phone returns False
\* and leaves the phones unchanged when the old number is absent; when it
\* is present it returns True, the list keeps its length, holds the new
\* number at the first index that held the old one and is unchanged at
\* every other index.
C9_EditInPlace ==
    (call.op = "edit_phone" /\ Phone(call.new).exc = "none")
        => LET before == call.before
               after == contact.phones
               at == {i \in 1..Len(before) : before[i] = call.old}
           IN IF at = {}
              THEN call.exc = "none" /\ call.ret = "False" /\ after = before
              ELSE /\ call.exc = "none" /\ call.ret = "True"
                   /\ Len(after) = Len(before)
                   /\ \A i \in 1..Len(before) :
                        IF i \in at /\ \A j \in at : i <= j
                        THEN after[i] = call.new
                        ELSE after[i] = before[i]

\* C9 witness: the old number stood at indexes 2 and 3 and was replaced.
C9_Witness ==
    /\ call.op = "edit_phone"
    /\ call.ret = "True"
    /\ Len(call.before) = 3
    /\ call.before[1] # call.old
    /\ call.before[2] = call.old
    /\ call.before[3] = call.old
    /\ call.new # call.old

ClaimedCommands == {"add", "change", "phone", "add-birthday", "show-birthday"}

\* C10: a call of the add, change, phone, add-birthday or show-birthday
\* handler that ends in an error (IndexError, KeyError, ValueError) leaves
\* the book exactly as it was.
C10_ErrorLeavesBook ==
    [][(last'.op \in ClaimedCommands /\ last'.exc # "none") => book' = book]_vars

\* C10 witness: add failed validation for a name that is not in the book.
C10_Witness == last.op = "add" /\ last.exc = "ValueError" /\ book = <<>>

=============================================================================
